---- MODULE Spec2Model ----
(***************************************************************************)
(* Model of src/PfeifferMaxigauge.py: the Tango device class that talks to *)
(* a Pfeiffer Maxigauge controller over a pyvisa serial session.           *)
(*                                                                         *)
(* Text is modelled as a sequence of character codes (ord values), so a    *)
(* control byte such as ACK is the number 6 inside a sequence.             *)
(***************************************************************************)
EXTENDS Integers, Sequences, FiniteSets, TLC

(***************************************************************************)
(* Protocol bytes (module level constants of the source).                  *)
(***************************************************************************)
ACK == 6
NAK == 21
ENQ == 5
ETX == 3

\* character codes used by the source's string literals
CR == 13
LF == 10
SP == 32
COMMA == 44
DOT == 46
PLUS == 43
MINUS == 45
CH0 == 48
CH1 == CH0 + 1
CHE == 69
CHe == 101

WRITE_TERMINATION == <<CR>>
READ_TERMINATION == <<CR, LF>>

(***************************************************************************)
(* Bounds of the model.                                                    *)
(***************************************************************************)
\* channel arguments are drawn from -MaxChannel..MaxChannel
MaxChannel == 8
\* longest first reply drawn over the handshake alphabet {ACK, NAK, '?'}
\* ('?' is the character 63)
MaxAnsLen == 2
\* longest payload line drawn over the decode alphabet
MaxPayloadLen == 4

(***************************************************************************)
(* Python string primitives used by the source.                            *)
(***************************************************************************)
\* c in text, for a one-character c
Contains(c, text) == \E i \in DOMAIN text : text[i] = c

\* one uppercase hexadecimal digit
HexDigit(d) == IF d < 10 THEN CH0 + d ELSE 65 + (d - 10)

RECURSIVE HexDigits(_)
\* the uppercase hexadecimal digits of n, most significant first, no padding
HexDigits(n) == IF n < 16 THEN <<HexDigit(n)>>
                ELSE HexDigits(n \div 16) \o <<HexDigit(n % 16)>>

\* f"{n:02X}": uppercase hex, zero padded to a minimum width of two
Format02X(n) == IF n < 16 THEN <<CH0>> \o HexDigits(n) ELSE HexDigits(n)

RECURSIVE Join(_, _)
\* sep.join(parts)
Join(sep, parts) ==
    IF parts = <<>> THEN <<>>
    ELSE IF Len(parts) = 1 THEN parts[1]
    ELSE parts[1] \o sep \o Join(sep, Tail(parts))

\* variant: f"{ord(s):X}", no padding
hexformat_NoPad(text) == Join(<<SP>>, [i \in DOMAIN text |-> HexDigits(text[i])])

\* hexformat(text)
hexformat(text) == Join(<<SP>>, [i \in DOMAIN text |-> Format02X(text[i])])

RECURSIVE DecDigits(_)
\* the decimal digits of a natural number
DecDigits(n) == IF n < 10 THEN <<CH0 + n>>
                ELSE DecDigits(n \div 10) \o <<CH0 + (n % 10)>>

\* str(n) and f"{n}" for an int
PyStr(n) == IF n < 0 THEN <<MINUS>> \o DecDigits(0 - n) ELSE DecDigits(n)

RECURSIVE Split(_, _)
\* text.split(sep) for a one-character sep: always at least one token
Split(text, sep) ==
    IF ~Contains(sep, text) THEN <<text>>
    ELSE LET i == CHOOSE k \in DOMAIN text :
                    /\ text[k] = sep
                    /\ \A j \in 1..(k - 1) : text[j] # sep
         IN <<SubSeq(text, 1, i - 1)>> \o Split(SubSeq(text, i + 1, Len(text)), sep)

(***************************************************************************)
(* float(text) of Python, for text made of digits, sign, '.', 'e'/'E' and  *)
(* white space.  A value is kept as an exact decimal                        *)
(* sign * mant * 10^exp, normalised so that equal numbers have equal       *)
(* records (mant carries no trailing zero, zero has exp 0).                *)
(***************************************************************************)
IsDigit(c) == c >= CH0 /\ c <= CH0 + 9
IsSpace(c) == c = SP \/ (c >= 9 /\ c <= 13)
IsSign(c) == c = PLUS \/ c = MINUS
IsExpMark(c) == c = CHE \/ c = CHe
AllDigits(text) == \A i \in DOMAIN text : IsDigit(text[i])

RECURSIVE LStrip(_)
LStrip(text) == IF text # <<>> /\ IsSpace(text[1]) THEN LStrip(Tail(text)) ELSE text

RECURSIVE RStrip(_)
RStrip(text) == IF text # <<>> /\ IsSpace(text[Len(text)])
                THEN RStrip(SubSeq(text, 1, Len(text) - 1)) ELSE text

Strip(text) == RStrip(LStrip(text))

RECURSIVE DigitsToNat(_)
DigitsToNat(text) == IF text = <<>> THEN 0
                     ELSE 10 * DigitsToNat(SubSeq(text, 1, Len(text) - 1))
                          + (text[Len(text)] - CH0)

RECURSIVE Normalise(_, _, _)
Normalise(sign, mant, exp) ==
    IF mant = 0 THEN [sign |-> sign, mant |-> 0, exp |-> 0]
    ELSE IF mant % 10 = 0 THEN Normalise(sign, mant \div 10, exp + 1)
    ELSE [sign |-> sign, mant |-> mant, exp |-> exp]

\* index of the first exponent mark of text, Len(text) + 1 when there is none
FirstExpMark(text) ==
    IF \E i \in DOMAIN text : IsExpMark(text[i])
    THEN CHOOSE i \in DOMAIN text :
            IsExpMark(text[i]) /\ \A j \in 1..(i - 1) : ~IsExpMark(text[j])
    ELSE Len(text) + 1

\* index of the first '.' of text, Len(text) + 1 when there is none
FirstDot(text) ==
    IF \E i \in DOMAIN text : text[i] = DOT
    THEN CHOOSE i \in DOMAIN text :
            text[i] = DOT /\ \A j \in 1..(i - 1) : text[j] # DOT
    ELSE Len(text) + 1

SignOf(text) == IF text # <<>> /\ text[1] = MINUS THEN 0 - 1 ELSE 1
Unsigned(text) == IF text # <<>> /\ IsSign(text[1]) THEN Tail(text) ELSE text

\* the parts of a literal are in hand: digits are required in the mantissa,
\* and after an exponent mark
FloatCheck(sign, intPart, fracPart, hasExp, expSign, expBody) ==
    IF /\ AllDigits(intPart)
       /\ AllDigits(fracPart)
       /\ Len(intPart) + Len(fracPart) >= 1
       /\ hasExp => (expBody # <<>> /\ AllDigits(expBody))
    THEN [ok |-> TRUE,
          val |-> Normalise(sign, DigitsToNat(intPart \o fracPart),
                            (IF hasExp THEN expSign * DigitsToNat(expBody) ELSE 0)
                            - Len(fracPart))]
    ELSE [ok |-> FALSE]

FloatMantissa(sign, mantStr, hasExp, expStr) ==
    FloatCheck(sign,
               SubSeq(mantStr, 1, FirstDot(mantStr) - 1),
               SubSeq(mantStr, FirstDot(mantStr) + 1, Len(mantStr)),
               hasExp, SignOf(expStr), Unsigned(expStr))

FloatBody(sign, body) ==
    FloatMantissa(sign,
                  SubSeq(body, 1, FirstExpMark(body) - 1),
                  FirstExpMark(body) <= Len(body),
                  SubSeq(body, FirstExpMark(body) + 1, Len(body)))

FloatStripped(s) == FloatBody(SignOf(s), Unsigned(s))

\* float(text): [ok |-> FALSE] stands for ValueError
PyFloat(text) == FloatStripped(Strip(text))

(***************************************************************************)
(* Python list item assignment lst[idx] = v with a 0-based idx: a negative *)
(* idx counts from the end, anything outside -len..len-1 is IndexError.    *)
(***************************************************************************)
PyListSet(lst, idx, v) ==
    LET n == Len(lst)
        pos == IF idx >= 0 THEN idx + 1 ELSE n + idx + 1
    IN IF pos >= 1 /\ pos <= n
       THEN [ok |-> TRUE, lst |-> [lst EXCEPT ![pos] = v]]
       ELSE [ok |-> FALSE]

\* number of slots of the mask built by enable_sensor / disable_sensor
MaskLen == 6
\* mask values written by enable_sensor and disable_sensor
MaskEnable == 2
MaskDisable == 1

SEN_PREFIX == <<83, 69, 78, COMMA>>
PR_PREFIX == <<80, 82>>

\* variant: the slot is addressed with the 1-based number
BuildMask_OneBased(argin, v) == PyListSet([i \in 1..MaskLen |-> 0], argin, v)

\* mask = 6 * [0]; mask[argin - 1] = v
BuildMask(argin, v) == PyListSet([i \in 1..MaskLen |-> 0], argin - 1, v)

\* ','.join([str(d) for d in mask])
MaskStr(mask) == Join(<<COMMA>>, [i \in DOMAIN mask |-> PyStr(mask[i])])

\* f"SEN,{mask_str}"
SenCommand(mask) == SEN_PREFIX \o MaskStr(mask)

\* f"PR{argin}"
PrCommand(argin) == PR_PREFIX \o PyStr(argin)

(***************************************************************************)
(* Outcomes of a call: what the caller of a method observes.               *)
(***************************************************************************)
NoRet == [kind |-> "pending"]
RetStr(text) == [kind |-> "str", val |-> text]
RetFloat(v) == [kind |-> "float", val |-> v]
RetNaN == [kind |-> "nan"]
RetNone == [kind |-> "None"]
Raise(exc) == [kind |-> "raise", exc |-> exc]

\* variant: the first field is converted instead of the second
ReadSensorBody_FirstField(q) ==
    IF q.kind = "raise" THEN q
    ELSE LET parts == Split(q.val, COMMA)
         IN IF Len(parts) # 2 THEN RetNaN
            ELSE LET f == PyFloat(parts[1])
                 IN IF f.ok THEN RetFloat(f.val) ELSE RetNaN

\* variant: only the ValueError of float() is caught, not that of unpacking
ReadSensorBody_UnpackUnguarded(q) ==
    IF q.kind = "raise" THEN q
    ELSE LET parts == Split(q.val, COMMA)
         IN IF Len(parts) # 2 THEN Raise("ValueError")
            ELSE LET f == PyFloat(parts[2])
                 IN IF f.ok THEN RetFloat(f.val) ELSE RetNaN

\* variant: the call of query stands inside the try block
ReadSensorBody_TryAroundQuery(q) ==
    IF q.kind = "raise" THEN RetNaN
    ELSE LET parts == Split(q.val, COMMA)
         IN IF Len(parts) # 2 THEN RetNaN
            ELSE LET f == PyFloat(parts[2])
                 IN IF f.ok THEN RetFloat(f.val) ELSE RetNaN

\* variant: a status other than "0" is reported as nan
ReadSensorBody_StatusChecked(q) ==
    IF q.kind = "raise" THEN q
    ELSE LET parts == Split(q.val, COMMA)
         IN IF Len(parts) # 2 \/ parts[1] # <<CH0>> THEN RetNaN
            ELSE LET f == PyFloat(parts[2])
                 IN IF f.ok THEN RetFloat(f.val) ELSE RetNaN

\* read_sensor after self.query(...) has finished with outcome q.  The call
\* of query stands before the try block: an exception of query leaves
\* read_sensor as it is; only the unpacking and float() are guarded.
ReadSensorBody(q) ==
    IF q.kind = "raise" THEN q
    ELSE LET parts == Split(q.val, COMMA)
         IN IF Len(parts) # 2 THEN RetNaN
            ELSE LET f == PyFloat(parts[2])
                 IN IF f.ok THEN RetFloat(f.val) ELSE RetNaN

\* variant: the switch hands the reply of query on to its caller
SensorSwitchBody_ReturnsReply(q) == q

\* enable_sensor / disable_sensor after self.query(...) finished with q:
\* the reply is dropped, the method returns None
SensorSwitchBody(q) == IF q.kind = "raise" THEN q ELSE RetNone

\* what the method `method` makes of the outcome q of its call of query
Continue(method, q) ==
    CASE method = "query" -> q
      [] method = "read_sensor" -> ReadSensorBody(q)
      [] OTHER -> SensorSwitchBody(q)

(***************************************************************************)
(* The decisions of query on the first reply ans.                          *)
(***************************************************************************)
\* variant: the NAK test made before the ACK test
Branch_NakFirst(a) ==
    IF Contains(NAK, a) THEN "nak"
    ELSE IF Contains(ACK, a) THEN "ack"
    ELSE "other"

\* if ACK in ans: ... elif NAK in ans: ... else: ...
Branch(a) ==
    IF Contains(ACK, a) THEN "ack"
    ELSE IF Contains(NAK, a) THEN "nak"
    ELSE "other"

\* variant: the result starts as the first reply
InitialReply_Ans(a) == a

\* reply = '' after the first reply a has been read
InitialReply(a) == <<>>

\* the error_stream message of the two branches that do not go on:
\* a fixed text around the interpolated value
ErrorMessage(branch, command, ans_hex) ==
    IF branch = "nak"
    THEN [text |-> "Query resulted in NAK: ", arg |-> command, tail |-> ""]
    ELSE [text |-> "Did not receive ACK on message, got ",
          arg |-> ans_hex, tail |-> " instead"]

(***************************************************************************)
(* The pyvisa message based session as configured by init_device.          *)
(***************************************************************************)
\* the bytes inst.write(msg) puts on the line
WireWrite(msg) == msg \o WRITE_TERMINATION

\* variant: write_raw appends the write terminator as write does
WireWriteRaw_Terminated(data) == data \o WRITE_TERMINATION

\* the bytes inst.write_raw(data) puts on the line
WireWriteRaw(data) == data

\* the text inst.read() returns for the bytes raw that end a message
WireRead(raw) ==
    LET n == Len(raw)
        t == Len(READ_TERMINATION)
    IN IF n >= t /\ SubSeq(raw, n - t + 1, n) = READ_TERMINATION
       THEN SubSeq(raw, 1, n - t) ELSE raw

\* the exception a use of self.inst raises when the session is not open
SessionError(i) == IF i = "unset" THEN "AttributeError" ELSE "InvalidSession"

(***************************************************************************)
(* Inputs.                                                                 *)
(***************************************************************************)
SeqsUpTo(S, n) == UNION {[1..k -> S] : k \in 0..n}

Threads == {"t1", "t2"}
Channels == (0 - MaxChannel)..MaxChannel
\* disable_sensor declares dtype_in='DevULong'
UChannels == 0..MaxChannel

HandshakeAlphabet == {ACK, NAK, 63}
CtlLines == SeqsUpTo(HandshakeAlphabet, MaxAnsLen)

DecodeAlphabet == {CH0, CH1, COMMA, DOT, CHe, MINUS}
\* "0,1.234e-05", "0, 1 ", "3,+1E1", "0,1,1"
SamplePayloads == { <<48, 44, 49, 46, 50, 51, 52, 101, 45, 48, 53>>,
                    <<48, 44, 32, 49, 32>>,
                    <<51, 44, 43, 49, 69, 49>>,
                    <<48, 44, 49, 44, 49>> }
PayloadLines == SeqsUpTo(DecodeAlphabet, MaxPayloadLen) \cup SamplePayloads

\* "???", "\x03", "\x06PR1"
SampleReplies == { <<63, 63, 63>>, <<ETX>>, <<ACK, 80, 82, CH1>> }
Lines == CtlLines \cup SampleReplies \cup SamplePayloads
\* first replies of the runs that exercise the decoding of the payload
DecodeFirstLines == { <<ACK>>, <<NAK>>, <<63>>, <<>> }
\* "PR1", "", "?"
QueryCommands == { PR_PREFIX \o <<CH1>>, <<>>, <<63>> }

(***************************************************************************)
(* State.                                                                  *)
(***************************************************************************)
VARIABLES
    inst,     \* self.inst: "unset", "open" or "closed"
    rm,       \* self.rm: "unset", "open" or "closed"
    life,     \* outcome of the last init_device / delete_device
    pc,       \* per thread: position inside the running method
    method,   \* per thread: the method called
    argin,    \* per thread: its argument
    cmd,      \* per thread: argin of query
    ans,      \* per thread: local ans of query
    reply,    \* per thread: local reply of query
    ret,      \* per thread: outcome of the method
    io,       \* per thread: transport operations of the running call
    err,      \* per thread: error_stream messages of the running call
    rx,       \* the device's lines the session has not read yet, oldest first
    devcmd    \* the command the device acknowledged last, <<>> if none

vars == <<inst, rm, life, pc, method, argin, cmd, ans, reply, ret, io, err, rx, devcmd>>
session == <<inst, rm, life>>
frames == <<pc, method, argin, cmd, ans, reply, ret, io, err>>
\* the far end of the line; the source keeps no state about it
dev == <<rx, devcmd>>

Init ==
    /\ inst = "unset"
    /\ rm = "unset"
    /\ life = "none"
    /\ pc = [t \in Threads |-> "idle"]
    /\ method = [t \in Threads |-> "none"]
    /\ argin = [t \in Threads |-> <<>>]
    /\ cmd = [t \in Threads |-> <<>>]
    /\ ans = [t \in Threads |-> <<>>]
    /\ reply = [t \in Threads |-> <<>>]
    /\ ret = [t \in Threads |-> NoRet]
    /\ io = [t \in Threads |-> <<>>]
    /\ err = [t \in Threads |-> <<>>]
    /\ rx = <<>>
    /\ devcmd = <<>>

Quiescent == \A t \in Threads : pc[t] \in {"idle", "done"}

(***************************************************************************)
(* Lifecycle.                                                              *)
(***************************************************************************)
\* init_device: the resource manager is created, then the resource is opened
\* and configured; open_resource may raise, which leaves self.inst as it was
InitDevice ==
    /\ Quiescent
    /\ inst \in {"unset", "closed"}
    /\ rm' = "open"
    /\ \/ inst' = "open" /\ life' = "init_ok"
       \/ inst' = inst /\ life' = "init_raise"
    /\ UNCHANGED frames

\* a delete_device whose close() of an already closed handle raises
DeleteDevice_SecondCloseRaises ==
    /\ Quiescent
    /\ IF inst # "open"
       THEN /\ life' = "delete_raise"
            /\ UNCHANGED <<inst, rm>>
       ELSE /\ inst' = "closed"
            /\ rm' = "closed"
            /\ life' = "delete_ok"
    /\ UNCHANGED frames

\* delete_device: self.inst.close() then self.rm.close().  Without self.inst
\* the first statement raises AttributeError.  close() of a handle that is
\* closed already does nothing (pyvisa swallows InvalidSession); life tells
\* such a repeated delete_device from the one that closed the session.
DeleteDevice ==
    /\ Quiescent
    /\ IF inst = "unset"
       THEN /\ life' = "delete_raise"
            /\ UNCHANGED <<inst, rm>>
       ELSE /\ inst' = "closed"
            /\ rm' = "closed"
            /\ life' = IF inst = "closed" /\ rm = "closed"
                       THEN "redelete_ok" ELSE "delete_ok"
    /\ UNCHANGED frames

(***************************************************************************)
(* Method entry.  A new call starts from a fresh frame.                    *)
(***************************************************************************)
Enter(t, m, a, c) ==
    /\ pc[t] \in {"idle", "done"}
    /\ method' = [method EXCEPT ![t] = m]
    /\ argin' = [argin EXCEPT ![t] = a]
    /\ cmd' = [cmd EXCEPT ![t] = c]
    /\ ans' = [ans EXCEPT ![t] = <<>>]
    /\ reply' = [reply EXCEPT ![t] = <<>>]
    /\ io' = [io EXCEPT ![t] = <<>>]
    /\ err' = [err EXCEPT ![t] = <<>>]
    /\ UNCHANGED session

\* query(argin) called by the host
CallQuery(t, commands) ==
    \E c \in commands :
        /\ Enter(t, "query", c, c)
        /\ pc' = [pc EXCEPT ![t] = "q_write"]
        /\ ret' = [ret EXCEPT ![t] = NoRet]

\* read_sensor(argin) up to its call of query
CallReadSensor(t, channels) ==
    \E ch \in channels :
        /\ Enter(t, "read_sensor", ch, PrCommand(ch))
        /\ pc' = [pc EXCEPT ![t] = "q_write"]
        /\ ret' = [ret EXCEPT ![t] = NoRet]

\* the mask of the SEN command the caller issued before, all 0 if none
PreviousMask(t) ==
    IF Len(cmd[t]) = Len(SEN_PREFIX) + 2 * MaskLen - 1
       /\ SubSeq(cmd[t], 1, Len(SEN_PREFIX)) = SEN_PREFIX
    THEN [i \in 1..MaskLen |-> cmd[t][Len(SEN_PREFIX) + 2 * i - 1] - CH0]
    ELSE [i \in 1..MaskLen |-> 0]

\* variant: the mask is kept from one call to the next and only the slot of
\* the named sensor is changed
SwitchSensor_KeepsMask(t, m, ch, v) ==
    LET b == PyListSet(PreviousMask(t), ch - 1, v)
    IN IF b.ok
       THEN /\ Enter(t, m, ch, SenCommand(b.lst))
            /\ pc' = [pc EXCEPT ![t] = "q_write"]
            /\ ret' = [ret EXCEPT ![t] = NoRet]
       ELSE /\ Enter(t, m, ch, <<>>)
            /\ pc' = [pc EXCEPT ![t] = "done"]
            /\ ret' = [ret EXCEPT ![t] = Raise("IndexError")]

\* enable_sensor / disable_sensor up to the call of query; the item
\* assignment raises IndexError before anything is sent
SwitchSensor(t, m, ch, v) ==
    LET b == BuildMask(ch, v)
    IN IF b.ok
       THEN /\ Enter(t, m, ch, SenCommand(b.lst))
            /\ pc' = [pc EXCEPT ![t] = "q_write"]
            /\ ret' = [ret EXCEPT ![t] = NoRet]
       ELSE /\ Enter(t, m, ch, <<>>)
            /\ pc' = [pc EXCEPT ![t] = "done"]
            /\ ret' = [ret EXCEPT ![t] = Raise("IndexError")]

CallEnableSensor(t, channels) ==
    \E ch \in channels : SwitchSensor(t, "enable_sensor", ch, MaskEnable)

CallDisableSensor(t, channels) ==
    \E ch \in channels : SwitchSensor(t, "disable_sensor", ch, MaskDisable)

(***************************************************************************)
(* query, one transport operation per step.                                *)
(***************************************************************************)
\* query has finished with outcome q: the calling method goes on with it
Finish(t, q) ==
    /\ pc' = [pc EXCEPT ![t] = "done"]
    /\ ret' = [ret EXCEPT ![t] = Continue(method[t], q)]

Log(t, kind, data) == io' = [io EXCEPT ![t] = Append(@, [kind |-> kind, data |-> data])]

\* variant: a session whose timeout is left infinite, a read waits for ever
HasTimeout_Never == FALSE

\* self.inst.timeout = 1000: a read that gets no line gives up after a second
HasTimeout == TRUE

\* self.inst.query(argin), first half: write argin + write_termination
QueryWrite(t) ==
    /\ pc[t] = "q_write"
    /\ IF inst # "open"
       THEN /\ Finish(t, Raise(SessionError(inst)))
            /\ UNCHANGED io
       ELSE \/ /\ Log(t, "write", WireWrite(cmd[t]))
               /\ pc' = [pc EXCEPT ![t] = "q_read"]
               /\ UNCHANGED ret
            \/ /\ Log(t, "write_error", <<>>)
               /\ Finish(t, Raise("VisaIOError"))
    /\ UNCHANGED <<session, method, argin, cmd, ans, reply, err>>

\* a query that sends the command again when the reply carries no ACK
QueryRead_ResendOnNoAck(t, lines) ==
    /\ pc[t] = "q_read"
    /\ \/ \E line \in lines :
            LET a == WireRead(line \o READ_TERMINATION)
            IN /\ Log(t, "read", line \o READ_TERMINATION)
               /\ ans' = [ans EXCEPT ![t] = a]
               /\ reply' = [reply EXCEPT ![t] = InitialReply(a)]
               /\ IF Branch(a) = "ack"
                  THEN /\ pc' = [pc EXCEPT ![t] = "q_enq"]
                       /\ UNCHANGED <<ret, err>>
                  ELSE /\ err' = [err EXCEPT ![t] =
                                Append(@, ErrorMessage(Branch(a), cmd[t], hexformat(a)))]
                       /\ IF Len(io[t]) < 3
                          THEN pc' = [pc EXCEPT ![t] = "q_write"] /\ UNCHANGED ret
                          ELSE Finish(t, RetStr(InitialReply(a)))
       \/ /\ Log(t, "read_timeout", <<>>)
          /\ Finish(t, Raise("VisaIOError"))
          /\ UNCHANGED <<ans, reply, err>>
    /\ UNCHANGED <<session, method, argin, cmd>>

\* self.inst.query(argin), second half: read one line into ans, then the
\* branch on ACK / NAK
QueryRead(t, lines) ==
    /\ pc[t] = "q_read"
    /\ \/ \E line \in lines :
            LET a == WireRead(line \o READ_TERMINATION)
            IN /\ Log(t, "read", line \o READ_TERMINATION)
               /\ ans' = [ans EXCEPT ![t] = a]
               /\ reply' = [reply EXCEPT ![t] = InitialReply(a)]
               /\ IF Branch(a) = "ack"
                  THEN /\ pc' = [pc EXCEPT ![t] = "q_enq"]
                       /\ UNCHANGED <<ret, err>>
                  ELSE /\ err' = [err EXCEPT ![t] =
                                Append(@, ErrorMessage(Branch(a), cmd[t], hexformat(a)))]
                       /\ Finish(t, RetStr(InitialReply(a)))
       \/ /\ HasTimeout
          /\ Log(t, "read_timeout", <<>>)
          /\ Finish(t, Raise("VisaIOError"))
          /\ UNCHANGED <<ans, reply, err>>
    /\ UNCHANGED <<session, method, argin, cmd>>

\* self.inst.write_raw(ENQ.encode())
QueryEnq(t) ==
    /\ pc[t] = "q_enq"
    /\ \/ /\ Log(t, "write_raw", WireWriteRaw(<<ENQ>>))
          /\ pc' = [pc EXCEPT ![t] = "q_read2"]
          /\ UNCHANGED ret
       \/ /\ Log(t, "write_error", <<>>)
          /\ Finish(t, Raise("VisaIOError"))
    /\ UNCHANGED <<session, method, argin, cmd, ans, reply, err>>

\* reply = self.inst.read(); return reply
QueryRead2(t, lines) ==
    /\ pc[t] = "q_read2"
    /\ \/ \E line \in lines :
            LET r == WireRead(line \o READ_TERMINATION)
            IN /\ Log(t, "read", line \o READ_TERMINATION)
               /\ reply' = [reply EXCEPT ![t] = r]
               /\ Finish(t, RetStr(r))
       \/ /\ HasTimeout
          /\ Log(t, "read_timeout", <<>>)
          /\ Finish(t, Raise("VisaIOError"))
          /\ UNCHANGED reply
    /\ UNCHANGED <<session, method, argin, cmd, ans, err>>

(***************************************************************************)
(* Specifications.                                                         *)
(***************************************************************************)
\* one caller at a time, as the host's polling and commands arrive
Next ==
    \/ InitDevice /\ UNCHANGED dev
    \/ DeleteDevice /\ UNCHANGED dev
    \/ CallQuery("t1", QueryCommands) /\ UNCHANGED dev
    \/ CallReadSensor("t1", Channels) /\ UNCHANGED dev
    \/ CallEnableSensor("t1", Channels) /\ UNCHANGED dev
    \/ CallDisableSensor("t1", UChannels) /\ UNCHANGED dev
    \/ QueryWrite("t1") /\ UNCHANGED dev
    \/ QueryRead("t1", Lines) /\ UNCHANGED dev
    \/ QueryEnq("t1") /\ UNCHANGED dev
    \/ QueryRead2("t1", Lines) /\ UNCHANGED dev

Spec == Init /\ [][Next]_vars

\* read_sensor alone, with payload lines drawn over the decode alphabet
NextDecode ==
    \/ InitDevice /\ UNCHANGED dev
    \/ CallReadSensor("t1", Channels) /\ UNCHANGED dev
    \/ QueryWrite("t1") /\ UNCHANGED dev
    \/ QueryRead("t1", DecodeFirstLines) /\ UNCHANGED dev
    \/ QueryEnq("t1") /\ UNCHANGED dev
    \/ QueryRead2("t1", PayloadLines) /\ UNCHANGED dev

SpecDecode == Init /\ [][NextDecode]_vars

\* two callers on the same device object; nothing in the source makes a
\* caller wait for the other
ConcLines == { <<ACK>>, <<NAK>>, <<CH0, COMMA, CH1>> }
NextConc ==
    \/ InitDevice /\ UNCHANGED dev
    \/ \E t \in Threads :
        \/ CallQuery(t, { PR_PREFIX \o <<CH1>> }) /\ UNCHANGED dev
        \/ CallReadSensor(t, {1, 2}) /\ UNCHANGED dev
        \/ CallEnableSensor(t, {1}) /\ UNCHANGED dev
        \/ CallDisableSensor(t, {1}) /\ UNCHANGED dev
        \/ QueryWrite(t) /\ UNCHANGED dev
        \/ QueryRead(t, ConcLines) /\ UNCHANGED dev
        \/ QueryEnq(t) /\ UNCHANGED dev
        \/ QueryRead2(t, ConcLines) /\ UNCHANGED dev

SpecConc == Init /\ [][NextConc]_vars

\* two callers that take turns: a call starts when no other call is running,
\* and the frame of each caller keeps its last call for comparison
NextRepeat ==
    \/ InitDevice /\ UNCHANGED dev
    \/ \E t \in Threads :
        \/ Quiescent /\ CallQuery(t, { PR_PREFIX \o <<CH1>> }) /\ UNCHANGED dev
        \/ Quiescent /\ CallEnableSensor(t, Channels) /\ UNCHANGED dev
        \/ Quiescent /\ CallDisableSensor(t, UChannels) /\ UNCHANGED dev
        \/ QueryWrite(t) /\ UNCHANGED dev
        \/ QueryRead(t, ConcLines) /\ UNCHANGED dev
        \/ QueryEnq(t) /\ UNCHANGED dev
        \/ QueryRead2(t, ConcLines) /\ UNCHANGED dev

SpecRepeat == Init /\ [][NextRepeat]_vars

\* read_sensor by two callers that take turns, with data lines made of a
\* status token, a comma and a value token
MaxStatusLen == 1
StatusTokens == SeqsUpTo(DecodeAlphabet \ {COMMA}, MaxStatusLen)
ValueTokens == { <<CH1>>, <<CH1, CHe, CH1>>, <<DOT>> }
StatusLines ==
    { st \o <<COMMA>> \o v : st \in StatusTokens, v \in ValueTokens }
        \cup { <<CH1>>, <<CH0, COMMA, CH1, COMMA, CH1>> }

NextStatus ==
    \/ InitDevice /\ UNCHANGED dev
    \/ \E t \in Threads :
        \/ Quiescent /\ CallReadSensor(t, {1, 2}) /\ UNCHANGED dev
        \/ QueryWrite(t) /\ UNCHANGED dev
        \/ QueryRead(t, { <<ACK>>, <<NAK>> }) /\ UNCHANGED dev
        \/ QueryEnq(t) /\ UNCHANGED dev
        \/ QueryRead2(t, StatusLines) /\ UNCHANGED dev

SpecStatus == Init /\ [][NextStatus]_vars

(***************************************************************************)
(* The gauge at the far end of the line.  It acknowledges a command line   *)
(* with ACK and answers ENQ with the data of the command it acknowledged   *)
(* last.  A line it has sent waits until a read of the session takes it;   *)
(* a read that ends before the line has arrived times out and leaves the   *)
(* line waiting.  The source never clears what is waiting.                 *)
(***************************************************************************)
MaxRx == 3

\* the data line of the gauge for the command "PR<n>": status 0 and a value
\* that names the channel
DeviceData(c) == <<CH0, COMMA>> \o SubSeq(c, Len(PR_PREFIX) + 1, Len(c))

DevCommands == { PR_PREFIX \o <<CH1>>, PR_PREFIX \o <<CH1 + 1>> }

LastKind(ops) == IF ops = <<>> THEN "none" ELSE ops[Len(ops)].kind
\* the step has performed a transport operation of kind k for thread t
Performed(t, k) == Len(io'[t]) = Len(io[t]) + 1 /\ LastKind(io'[t]) = k

\* what is waiting for the next read: nothing, or the oldest line
Waiting == IF rx = <<>> THEN {} ELSE {Head(rx)}

DevCallQuery(t) ==
    /\ Len(rx) < MaxRx
    /\ CallQuery(t, DevCommands)
    /\ UNCHANGED dev

\* the command line is written: the gauge acknowledges it, or the gauge is
\* off or unplugged, gets nothing and has nothing to send
DevQueryWrite(t) ==
    /\ QueryWrite(t)
    /\ IF Performed(t, "write")
       THEN \/ rx' = Append(rx, <<ACK>>) /\ devcmd' = cmd[t]
            \/ rx' = rx /\ devcmd' = <<>>
       ELSE UNCHANGED dev

DevQueryRead(t) ==
    /\ QueryRead(t, Waiting)
    /\ rx' = IF Performed(t, "read") THEN Tail(rx) ELSE rx
    /\ UNCHANGED devcmd

\* ENQ reaches the gauge, which sends the data of the acknowledged command
DevQueryEnq(t) ==
    /\ QueryEnq(t)
    /\ rx' = IF Performed(t, "write_raw") /\ devcmd # <<>>
             THEN Append(rx, DeviceData(devcmd)) ELSE rx
    /\ UNCHANGED devcmd

DevQueryRead2(t) ==
    /\ QueryRead2(t, Waiting)
    /\ rx' = IF Performed(t, "read") THEN Tail(rx) ELSE rx
    /\ UNCHANGED devcmd

\* the transport operations of the running call of thread t
DevStep(t) ==
    \/ DevQueryWrite(t)
    \/ DevQueryRead(t)
    \/ DevQueryEnq(t)
    \/ DevQueryRead2(t)

\* one caller, one call after the other, against the gauge
NextDev ==
    \/ InitDevice /\ UNCHANGED dev
    \/ DevCallQuery("t1")
    \/ DevQueryWrite("t1")
    \/ DevQueryRead("t1")
    \/ DevQueryEnq("t1")
    \/ DevQueryRead2("t1")

\* a call that has been entered keeps running: each transport operation of
\* pyvisa returns, with its result or with an exception
SpecDev == Init /\ [][NextDev]_vars /\ WF_vars(DevStep("t1"))

(***************************************************************************)
(* Vocabulary of the properties.                                           *)
(***************************************************************************)
Done(t) == pc[t] = "done"
Returned(t) == Done(t) /\ ret[t].kind # "raise"
Kinds(t) == [i \in DOMAIN io[t] |-> io[t][i].kind]
CountKind(t, k) == Cardinality({i \in DOMAIN io[t] : io[t][i].kind = k})
\* the first read of the call delivered a line
FirstReplyRead(t) == Len(io[t]) >= 2 /\ io[t][2].kind = "read"
\* the line a read event delivered, without its terminator
LineOf(ev) == SubSeq(ev.data, 1, Len(ev.data) - 2)
Commas(text) == {i \in DOMAIN text : text[i] = COMMA}
\* the text after the only comma of a text with exactly one comma
SecondField(text) ==
    LET c == CHOOSE i \in Commas(text) : TRUE
    IN SubSeq(text, c + 1, Len(text))
FirstField(text) ==
    LET c == CHOOSE i \in Commas(text) : TRUE
    IN SubSeq(text, 1, c - 1)

\* The floating point literals float() accepts, as an automaton over the
\* characters: optional white space, optional sign, digits with an optional
\* '.', or '.' followed by digits, an optional exponent, optional white space.
FloatStep(q, c) ==
    CASE q = "start" /\ IsSpace(c) -> "start"
      [] q = "start" /\ IsSign(c) -> "signed"
      [] q \in {"start", "signed", "int"} /\ IsDigit(c) -> "int"
      [] q \in {"start", "signed"} /\ c = DOT -> "dot"
      [] q = "int" /\ c = DOT -> "frac"
      [] q \in {"dot", "frac"} /\ IsDigit(c) -> "frac"
      [] q \in {"int", "frac"} /\ IsExpMark(c) -> "e"
      [] q = "e" /\ IsSign(c) -> "esign"
      [] q \in {"e", "esign", "exp"} /\ IsDigit(c) -> "exp"
      [] q \in {"int", "frac", "exp", "trail"} /\ IsSpace(c) -> "trail"
      [] OTHER -> "bad"

RECURSIVE FloatRun(_, _)
FloatRun(q, text) == IF text = <<>> THEN q ELSE FloatRun(FloatStep(q, text[1]), Tail(text))

IsFloatLiteral(text) == FloatRun("start", text) \in {"int", "frac", "exp", "trail"}

\* value of a hexadecimal digit character, 16 for anything else; lowercase
\* letters are not digits here
HexValue(c) == IF c >= CH0 /\ c <= CH0 + 9 THEN c - CH0
               ELSE IF c >= 65 /\ c <= 70 THEN c - 55 ELSE 16

\* dump is the space separated two digit uppercase hex rendering of text
IsHexDump(dump, text) ==
    /\ Len(dump) = (IF text = <<>> THEN 0 ELSE 3 * Len(text) - 1)
    /\ \A i \in DOMAIN text :
        /\ HexValue(dump[3 * i - 2]) < 16
        /\ HexValue(dump[3 * i - 1]) < 16
        /\ 16 * HexValue(dump[3 * i - 2]) + HexValue(dump[3 * i - 1]) = text[i]
        /\ i < Len(text) => dump[3 * i] = SP

(***************************************************************************)
(* Properties.                                                             *)
(***************************************************************************)
T == "t1"

\* C1: whenever the first reply of query contains ACK, whatever else it
\* contains, and the transport delivers the next line, query has written the
\* command, read the first reply, written exactly one raw ENQ, read one more
\* line, and returns exactly that line.
C1_AckReturnsPayload ==
    \A t \in Threads :
        (Returned(t) /\ Contains(ACK, ans[t])) =>
            /\ Kinds(t) = <<"write", "read", "write_raw", "read">>
            /\ io[t][3].data = <<ENQ>>
            /\ LineOf(io[t][2]) = ans[t]
            /\ reply[t] = LineOf(io[t][4])
            /\ method[t] = "query" => ret[t] = RetStr(LineOf(io[t][4]))

\* a query whose first reply holds NAK before ACK returned a non-empty payload
C1_Witness ==
    /\ method[T] = "query" /\ Returned(T)
    /\ ans[T] = <<NAK, ACK>>
    /\ ret[T].val = <<CH0, COMMA, CH1, DOT, 50, 51, 52, CHe, MINUS, CH0, 53>>

\* C2: when the first reply of query contains NAK and no ACK, query returns
\* the empty string, has sent no ENQ and read no second line, and raises
\* nothing.
C2_NakReturnsEmpty ==
    \A t \in Threads :
        (Done(t) /\ FirstReplyRead(t)
         /\ Contains(NAK, ans[t]) /\ ~Contains(ACK, ans[t])) =>
            /\ reply[t] = <<>>
            /\ method[t] = "query" => ret[t] = RetStr(<<>>)
            /\ ret[t].kind # "raise"
            /\ Kinds(t) = <<"write", "read">>
            /\ LineOf(io[t][2]) = ans[t]

\* query("PR1") finished on the first reply "?\x15"
C2_Witness ==
    /\ method[T] = "query" /\ Done(T)
    /\ cmd[T] = <<80, 82, CH1>>
    /\ ans[T] = <<63, NAK>>
    /\ ret[T] = RetStr(<<>>)

\* C3: when the first reply of query contains neither ACK nor NAK (the empty
\* reply included), query returns the empty string without an ENQ or a second
\* read, and its one error message carries the space separated two digit
\* uppercase hex rendering of every character of that reply.
C3_OtherReturnsEmptyWithHexDump ==
    \A t \in Threads :
        (Done(t) /\ FirstReplyRead(t)
         /\ ~Contains(NAK, ans[t]) /\ ~Contains(ACK, ans[t])) =>
            /\ reply[t] = <<>>
            /\ method[t] = "query" => ret[t] = RetStr(<<>>)
            /\ Kinds(t) = <<"write", "read">>
            /\ Len(err[t]) = 1
            /\ err[t][1].text = "Did not receive ACK on message, got "
            /\ IsHexDump(err[t][1].arg, ans[t])
            /\ ans[t] = <<63, 63, 63>> =>
                  err[t][1].arg = <<51, 70, SP, 51, 70, SP, 51, 70>>

\* the first reply "???" of the spec's scenario was answered with "3F 3F 3F"
C3_Witness ==
    /\ method[T] = "query" /\ Done(T)
    /\ ans[T] = <<63, 63, 63>>
    /\ Len(err[T]) = 1
    /\ err[T][1].arg = <<51, 70, SP, 51, 70, SP, 51, 70>>

\* the decimal text of an integer: digits, most significant first, after an
\* optional '-'
IsDecimalOf(text, n) ==
    IF n < 0
    THEN /\ Len(text) >= 2 /\ text[1] = MINUS
         /\ AllDigits(Tail(text)) /\ DigitsToNat(Tail(text)) = 0 - n
    ELSE /\ Len(text) >= 1 /\ AllDigits(text) /\ DigitsToNat(text) = n

\* C4: read_sensor(channel) issues one query whose command is "PR" followed
\* by the decimal channel number, and when the result of that query is two
\* comma separated fields whose second is a floating point literal it returns
\* the number that literal denotes.
C4_ReadSensorReturnsSecondField ==
    \A t \in Threads :
        (method[t] = "read_sensor" /\ pc[t] # "idle") =>
            /\ Len(cmd[t]) >= 3
            /\ SubSeq(cmd[t], 1, 2) = <<80, 82>>
            /\ IsDecimalOf(SubSeq(cmd[t], 3, Len(cmd[t])), argin[t])
            /\ CountKind(t, "write") <= 1
            /\ Len(io[t]) >= 1 /\ io[t][1].kind = "write" =>
                  io[t][1].data = cmd[t] \o <<CR>>
            /\ (Returned(t) /\ Cardinality(Commas(reply[t])) = 1
                /\ IsFloatLiteral(SecondField(reply[t]))) =>
                  /\ CountKind(t, "write") = 1
                  /\ ret[t] = RetFloat(PyFloat(SecondField(reply[t])).val)
            /\ (Returned(t) /\ reply[t] = <<CH0, COMMA, CH1, DOT, 50, 51, 52, CHe, MINUS, CH0, 53>>) =>
                  ret[t] = RetFloat([sign |-> 1, mant |-> 1234, exp |-> 0 - 8])
            /\ (Returned(t) /\ reply[t] = <<CH0, COMMA, CH1, CH0>>) =>
                  ret[t] = RetFloat([sign |-> 1, mant |-> 1, exp |-> 1])
            /\ (Returned(t) /\ reply[t] = <<COMMA, MINUS, DOT, CH1>>) =>
                  ret[t] = RetFloat([sign |-> 0 - 1, mant |-> 1, exp |-> 0 - 1])
            /\ (Returned(t) /\ reply[t] = <<COMMA, CH1, CHe, CH1>>) =>
                  ret[t] = RetFloat([sign |-> 1, mant |-> 1, exp |-> 1])

\* read_sensor(1) returned 1.234e-05 for the payload "0,1.234e-05"
C4_Witness ==
    /\ method[T] = "read_sensor" /\ argin[T] = 1 /\ Done(T)
    /\ cmd[T] = <<80, 82, CH1>>
    /\ reply[T] = <<CH0, COMMA, CH1, DOT, 50, 51, 52, CHe, MINUS, CH0, 53>>
    /\ ret[T] = RetFloat([sign |-> 1, mant |-> 1234, exp |-> 0 - 8])

\* C5: for every channel argument, also outside 1..6, when the result of the
\* query is empty, has no comma, has more than one comma or has a second
\* field that is no number, read_sensor returns NaN and raises nothing; so it
\* does after a first reply with NAK or without ACK.
C5_ReadSensorNaN ==
    \A t \in Threads :
        (method[t] = "read_sensor" /\ Done(t) /\ FirstReplyRead(t)
         /\ (Contains(ACK, ans[t]) => Kinds(t)[Len(io[t])] = "read")) =>
            /\ (\/ reply[t] = <<>>
                \/ Cardinality(Commas(reply[t])) # 1
                \/ ~IsFloatLiteral(SecondField(reply[t]))) => ret[t] = RetNaN
            /\ ~Contains(ACK, ans[t]) => ret[t] = RetNaN
            /\ ret[t].kind \in {"nan", "float"}

\* read_sensor(7) gave NaN for a payload with two commas
C5_Witness ==
    /\ method[T] = "read_sensor" /\ argin[T] = 7 /\ Done(T)
    /\ reply[T] = <<CH0, COMMA, CH1, COMMA, CH1>>
    /\ ret[T] = RetNaN

\* read_sensor(3) gave NaN after a NAK
C5_WitnessNak ==
    /\ method[T] = "read_sensor" /\ argin[T] = 3 /\ Done(T)
    /\ ans[T] = <<NAK>>
    /\ CountKind(T, "write_raw") = 0
    /\ ret[T] = RetNaN

\* the SEN command text for channel c and mask value v
SenText(c, v) ==
    <<83, 69, 78, COMMA>> \o
    [i \in 1..(2 * 6 - 1) |->
        IF i % 2 = 0 THEN COMMA
        ELSE IF (i + 1) \div 2 = c THEN CH0 + v ELSE CH0]

\* C6: for a channel c in 1..6, enable_sensor(c) issues one query whose
\* command is "SEN," followed by six comma joined digits, all 0 except the
\* c-th, which is 2; disable_sensor(c) the same with 1; no other characters.
C6_SenCommand ==
    \A t \in Threads :
        (method[t] \in {"enable_sensor", "disable_sensor"}
         /\ argin[t] \in 1..6 /\ pc[t] # "idle") =>
            /\ cmd[t] = SenText(argin[t], IF method[t] = "enable_sensor" THEN 2 ELSE 1)
            /\ CountKind(t, "write") <= 1
            /\ Len(io[t]) >= 1 /\ io[t][1].kind = "write" =>
                  io[t][1].data = cmd[t] \o <<CR>>
            /\ (method[t] = "enable_sensor" /\ argin[t] = 4) =>
                  cmd[t] = <<83, 69, 78, 44, 48, 44, 48, 44, 48, 44, 50, 44, 48, 44, 48>>

\* enable_sensor(4) has put "SEN,0,0,0,2,0,0\r" on the line
C6_Witness ==
    /\ method[T] = "enable_sensor" /\ argin[T] = 4
    /\ Len(io[T]) >= 1
    /\ io[T][1] = [kind |-> "write",
                   data |-> <<83, 69, 78, 44, 48, 44, 48, 44, 48, 44, 50, 44, 48, 44, 48, 13>>]

\* disable_sensor(6) has put "SEN,0,0,0,0,0,1\r" on the line
C6_WitnessDisable ==
    /\ method[T] = "disable_sensor" /\ argin[T] = 6
    /\ Len(io[T]) >= 1
    /\ io[T][1] = [kind |-> "write",
                   data |-> <<83, 69, 78, 44, 48, 44, 48, 44, 48, 44, 48, 44, 48, 44, 49, 13>>]

\* C7: for every channel outside 1..6, zero and the negative ones included,
\* enable_sensor / disable_sensor fail with IndexError while the mask is
\* built, so that no SEN command is written to the transport.
C7_OutOfRangeNothingWritten ==
    \A t \in Threads :
        (method[t] \in {"enable_sensor", "disable_sensor"} /\ argin[t] \notin 1..6) =>
            CountKind(t, "write") = 0

\* what the item assignment does outside 1..6: IndexError above 6 and below
\* -5, the slot counted from the end for -5..0
C7_IndexErrorOnlyFarOutside ==
    \A t \in Threads :
        (method[t] \in {"enable_sensor", "disable_sensor"} /\ pc[t] # "idle") =>
            /\ (argin[t] > 6 \/ argin[t] < 0 - 5) =>
                  /\ Done(t) /\ ret[t] = Raise("IndexError") /\ io[t] = <<>>
            /\ argin[t] \in (0 - 5)..0 =>
                  cmd[t] = SenText(argin[t] + 6, IF method[t] = "enable_sensor" THEN 2 ELSE 1)

\* between the command write of a call and the end of its exchange
InExchange(t) == pc[t] \in {"q_read", "q_enq", "q_read2"}

\* C8: calls made concurrently on one session are serialised: while one
\* call is between its command write and the end of its exchange, no other
\* call reads from or writes to the transport.
C8_ExchangesSerialised ==
    \A a \in Threads : \A b \in Threads \ {a} : ~(InExchange(a) /\ InExchange(b))

\* C9: while the session is not open (never opened, or closed), a call of
\* query, read_sensor, enable_sensor or disable_sensor ends with an
\* exception: no string, no number and no NaN is returned, and nothing has
\* been written to the transport.
C9_ClosedFailsLoudly ==
    [][\A t \in Threads :
          (inst # "open" /\ pc[t] # "done" /\ pc'[t] = "done") =>
              /\ ret'[t].kind = "raise"
              /\ io'[t] = <<>>]_vars

\* read_sensor called after delete_device ended with pyvisa's InvalidSession
C9_Witness ==
    /\ inst = "closed" /\ life = "delete_ok"
    /\ method[T] = "read_sensor" /\ Done(T)
    /\ ret[T] = Raise("InvalidSession")
    /\ io[T] = <<>>

\* C10: a failure of the transport (a read that times out, a write that
\* fails) during query reaches the caller as the transport's exception: query
\* returns no string for it and read_sensor no NaN.
C10_TransportErrorPropagates ==
    \A t \in Threads :
        (Done(t) /\ io[t] # <<>>
         /\ Kinds(t)[Len(io[t])] \in {"read_timeout", "write_error"}) =>
            ret[t] = Raise("VisaIOError")

\* read_sensor whose payload read timed out after ACK and ENQ
C10_Witness ==
    /\ method[T] = "read_sensor" /\ Done(T)
    /\ Kinds(T) = <<"write", "read", "write_raw", "read_timeout">>
    /\ ret[T] = Raise("VisaIOError")

\* the transport operations of a call that met no transport failure
OpsWithAck == <<"write", "read", "write_raw", "read">>
OpsWithoutAck == <<"write", "read">>
IsFailure(k) == k \in {"write_error", "read_timeout"}
IsPrefix(a, b) == Len(a) <= Len(b) /\ a = SubSeq(b, 1, Len(a))
\* the operations so far, without a final failed one
CleanOps(t) ==
    IF io[t] # <<>> /\ IsFailure(io[t][Len(io[t])].kind)
    THEN SubSeq(Kinds(t), 1, Len(io[t]) - 1) ELSE Kinds(t)

\* C11: no retries.  At every point of a call the transport operations so far
\* are, in this order, one command write, one read and, if and only if the
\* first reply contains ACK, one ENQ write and one further read; a transport
\* failure can only be the last operation of the call.  The command is written
\* at most once.  A finished call whose first reply carried no ACK has
\* produced exactly one error_stream message, any other call none.
C11_NoRetries ==
    pc[T] # "idle" =>
        /\ IsPrefix(CleanOps(T), OpsWithAck)
        /\ CleanOps(T) # Kinds(T) => Done(T)
        /\ CountKind(T, "write") <= 1
        /\ CountKind(T, "write_raw") <= 1
        /\ \A i \in DOMAIN io[T] :
            /\ io[T][i].kind = "write" => io[T][i].data = WireWrite(cmd[T])
            /\ io[T][i].kind = "write_raw" => io[T][i].data = <<ENQ>>
        /\ Len(io[T]) >= 3 => Contains(ACK, LineOf(io[T][2]))
        /\ (Done(T) /\ CleanOps(T) = Kinds(T) /\ io[T] # <<>>) =>
            Kinds(T) = (IF Contains(ACK, LineOf(io[T][2]))
                        THEN OpsWithAck ELSE OpsWithoutAck)
        /\ Len(err[T]) = (IF FirstReplyRead(T) /\ ~Contains(ACK, LineOf(io[T][2]))
                          THEN 1 ELSE 0)

\* a NAK is answered by no second attempt: one write, one read, one message
C11_Witness ==
    /\ Done(T) /\ method[T] = "query"
    /\ Kinds(T) = OpsWithoutAck
    /\ Contains(NAK, ans[T])
    /\ Len(err[T]) = 1
    /\ ret[T] = RetStr(<<>>)

\* an ACK is followed by exactly one ENQ and one more read
C11_WitnessAck ==
    /\ Done(T) /\ method[T] = "query"
    /\ Kinds(T) = OpsWithAck
    /\ err[T] = <<>>

\* C12: delete_device is idempotent and releases the transport.  Whenever the
\* last lifecycle call was a delete_device that returned, whether it closed an
\* open session or was repeated on a closed one, both self.inst and self.rm
\* are closed; delete_device raises only when init_device has never opened a
\* resource, never on a session that was closed before.
C12_CloseIdempotent ==
    /\ life \in {"delete_ok", "redelete_ok"} => inst = "closed" /\ rm = "closed"
    /\ life = "delete_raise" => inst = "unset"

\* delete_device was called a second time with no init_device in between
C12_Witness == life = "redelete_ok" /\ inst = "closed" /\ rm = "closed"

\* the first delete_device after a successful init_device
C12_WitnessFirst == life = "delete_ok" /\ inst = "closed" /\ rm = "closed"

IsSwitch(t) == method[t] \in {"enable_sensor", "disable_sensor"}
\* the call has finished and none of its transport operations failed
Completed(t) == Done(t) /\ io[t] # <<>> /\ ~IsFailure(io[t][Len(io[t])].kind)

\* C14: enable_sensor and disable_sensor are fire-and-forget.  For a channel in
\* 1..6, a call whose transport operations all succeeded returns None: after
\* an ACK and any payload line, after a NAK, and after a first reply with
\* neither.  The outcome is the same for every reply the device can give.
C14_FireAndForget ==
    (IsSwitch(T) /\ argin[T] \in 1..6 /\ Completed(T)) => ret[T] = RetNone

\* the device refused the command with NAK and the switch returned None
C14_Witness ==
    /\ IsSwitch(T) /\ argin[T] \in 1..6 /\ Completed(T)
    /\ Contains(NAK, ans[T])
    /\ ret[T] = RetNone

\* ACK and a payload line that is not empty, dropped by the switch
C14_WitnessAck ==
    /\ IsSwitch(T) /\ argin[T] \in 1..6 /\ Completed(T)
    /\ Contains(ACK, ans[T]) /\ reply[T] # <<>>
    /\ ret[T] = RetNone

\* a first reply with neither ACK nor NAK
C14_WitnessOther ==
    /\ IsSwitch(T) /\ argin[T] \in 1..6 /\ Completed(T)
    /\ Branch(ans[T]) = "other"
    /\ ret[T] = RetNone

\* the last n elements of a sequence
Suffix(text, n) == SubSeq(text, Len(text) - n + 1, Len(text))

\* C16: on the wire the command is the command text followed by the single
\* byte 0x0D, the ENQ is the single byte 0x05 with nothing appended, and each
\* line read ends with 0x0D 0x0A, which is not part of ans, of reply or of the
\* text query returns.
C16_WireFormat ==
    pc[T] # "idle" =>
        /\ \A i \in DOMAIN io[T] :
            /\ io[T][i].kind = "write" =>
                /\ Len(io[T][i].data) = Len(cmd[T]) + 1
                /\ SubSeq(io[T][i].data, 1, Len(cmd[T])) = cmd[T]
                /\ io[T][i].data[Len(cmd[T]) + 1] = 13
            /\ io[T][i].kind = "write_raw" => io[T][i].data = <<5>>
            /\ io[T][i].kind = "read" =>
                /\ Len(io[T][i].data) >= 2
                /\ Suffix(io[T][i].data, 2) = <<13, 10>>
        /\ FirstReplyRead(T) => ans[T] \o <<13, 10>> = io[T][2].data
        /\ (Len(io[T]) = 4 /\ io[T][4].kind = "read") =>
            /\ reply[T] \o <<13, 10>> = io[T][4].data
            /\ method[T] = "query" => ret[T] = RetStr(LineOf(io[T][4]))

\* query("PR1") wrote "PR1\r", read ACK CR LF, wrote the byte ENQ, read
\* "0,1.234e-05" CR LF and returned "0,1.234e-05"
C16_Witness ==
    /\ Done(T) /\ method[T] = "query"
    /\ Len(io[T]) = 4
    /\ io[T][1] = [kind |-> "write", data |-> <<80, 82, 49, 13>>]
    /\ io[T][2] = [kind |-> "read", data |-> <<6, 13, 10>>]
    /\ io[T][3] = [kind |-> "write_raw", data |-> <<5>>]
    /\ io[T][4].kind = "read"
    /\ io[T][4].data = <<48, 44, 49, 46, 50, 51, 52, 101, 45, 48, 53, 13, 10>>
    /\ ret[T] = RetStr(<<48, 44, 49, 46, 50, 51, 52, 101, 45, 48, 53>>)

InCall(t) == pc[t] \in {"q_write", "q_read", "q_enq", "q_read2"}
Reads(t) == CountKind(t, "read") + CountKind(t, "read_timeout")

\* C15: a call of query on an open session finishes, with a string or with
\* the exception of the transport, given that every read either delivers the
\* line that is waiting or times out; the call makes at most two reads and no
\* other wait.
C15_QueryTerminates ==
    /\ [](Reads(T) <= 2)
    /\ (inst = "open" /\ InCall(T)) ~> Done(T)

\* the gauge stayed silent, the read timed out and query ended with the
\* exception
C15_Witness ==
    /\ inst = "open" /\ Done(T) /\ method[T] = "query"
    /\ rx = <<>>
    /\ Kinds(T) = <<"write", "read_timeout">>
    /\ ret[T] = Raise("VisaIOError")

\* C17: in a sequence of calls of query that do not overlap, the payload a
\* call returns is never the data the gauge sent for another command than the
\* call's own, also after earlier calls that ended with a read timeout.
C17_PayloadIsOwn ==
    (Done(T) /\ method[T] = "query" /\ Kinds(T) = OpsWithAck /\ ret[T].kind = "str") =>
        ret[T].val \notin { DeviceData(c) : c \in DevCommands \ {cmd[T]} }

\* C13: the SEN command of enable_sensor / disable_sensor depends on the
\* method and its argument alone.  Any two calls of the same method with the
\* same sensor number, whatever was called before them and whatever the gauge
\* replied, have the same command and put the same bytes on the line; so do
\* two calls of enable_sensor(c) made one after the other.
C13_SwitchStateless ==
    \A a \in Threads : \A b \in Threads \ {a} :
        (IsSwitch(a) /\ method[b] = method[a] /\ argin[b] = argin[a]) =>
            /\ cmd[a] = cmd[b]
            /\ (io[a] # <<>> /\ io[b] # <<>>
                /\ io[a][1].kind = "write" /\ io[b][1].kind = "write") =>
                    io[a][1].data = io[b][1].data

\* enable_sensor(3) twice in a row, answered with ACK the first time and with
\* NAK the second time: twice "SEN,0,0,2,0,0,0\r"
C13_Witness ==
    /\ method["t1"] = "enable_sensor" /\ method["t2"] = "enable_sensor"
    /\ argin["t1"] = 3 /\ argin["t2"] = 3
    /\ Completed("t1") /\ Completed("t2")
    /\ Contains(ACK, ans["t1"]) /\ Contains(NAK, ans["t2"])
    /\ io["t1"][1].data = <<83, 69, 78, 44, 48, 44, 48, 44, 50, 44, 48, 44, 48, 44, 48, 13>>
    /\ io["t2"][1].data = io["t1"][1].data

\* read_sensor got a result of query with exactly two tokens
TwoTokens(t) ==
    /\ method[t] = "read_sensor" /\ Done(t) /\ Kinds(t) = OpsWithAck
    /\ Cardinality(Commas(reply[t])) = 1

\* C18: the result of read_sensor does not depend on the status token.  Two
\* calls whose results of query have exactly two tokens and the same second
\* token, a valid number, return the same float, whatever the first tokens
\* are: "0", another digit, empty or not a number.
C18_StatusIgnored ==
    \A a \in Threads : \A b \in Threads \ {a} :
        (TwoTokens(a) /\ TwoTokens(b)
         /\ SecondField(reply[a]) = SecondField(reply[b])
         /\ IsFloatLiteral(SecondField(reply[a]))) =>
            /\ ret[a].kind = "float"
            /\ ret[b] = ret[a]

\* "0,1e1" and "e,1e1" both give 10.0
C18_Witness ==
    /\ TwoTokens("t1") /\ TwoTokens("t2")
    /\ reply["t1"] = <<48, 44, 49, 101, 49>>
    /\ reply["t2"] = <<101, 44, 49, 101, 49>>
    /\ ret["t1"].kind = "float"
    /\ ret["t2"] = ret["t1"]

\* an empty status token and the status "1": ",1" and "1,1" both give 1.0
C18_WitnessEmpty ==
    /\ TwoTokens("t1") /\ TwoTokens("t2")
    /\ reply["t1"] = <<44, 49>>
    /\ reply["t2"] = <<49, 44, 49>>
    /\ ret["t1"].kind = "float"
    /\ ret["t2"] = ret["t1"]

====
